---- MODULE Spec2Model ----
(***************************************************************************)
(* Model of pybabynames/__init__.py: the module-level code that resolves   *)
(* the dataframe framework (pandas or polars) and loads the four bundled   *)
(* parquet files.  Python strings are sequences of one-character strings,  *)
(* so that str.lower() and str.capitalize() are computed, not assumed.     *)
(***************************************************************************)
EXTENDS Naturals, Sequences, FiniteSets

\* Largest number of upper-cased positions in an enumerated configured value.
MaxUpper == 2

----------------------------------------------------------------------------
(* Python values *)

\* The value None, kept comparable with the character sequences.
None == <<"None">>

\* A module global that has not been assigned yet.
Unbound == <<"unbound">>

UpperChars == <<"A","B","C","D","E","F","G","H","I","J","K","L","M",
                "N","O","P","Q","R","S","T","U","V","W","X","Y","Z">>

LowerChars == <<"a","b","c","d","e","f","g","h","i","j","k","l","m",
                "n","o","p","q","r","s","t","u","v","w","x","y","z">>

\* str.lower() on one (ASCII) character.
LowerChar(c) ==
    IF \E i \in DOMAIN UpperChars : UpperChars[i] = c
    THEN LowerChars[CHOOSE i \in DOMAIN UpperChars : UpperChars[i] = c]
    ELSE c

\* str.upper() on one (ASCII) character.
UpperChar(c) ==
    IF \E i \in DOMAIN LowerChars : LowerChars[i] = c
    THEN UpperChars[CHOOSE i \in DOMAIN LowerChars : LowerChars[i] = c]
    ELSE c

\* A plausible slip: the configured value is used as read, without .lower().
Lower_missing(s) == s

\* str.lower(): every character lower-cased.
Lower(s) == [i \in 1..Len(s) |-> LowerChar(s[i])]

\* str.capitalize(): first character upper-cased, the rest lower-cased.
Capitalize(s) ==
    [i \in 1..Len(s) |-> IF i = 1 THEN UpperChar(s[i]) ELSE LowerChar(s[i])]

----------------------------------------------------------------------------
(* Module constants, lines 9-14 *)

pandas == <<"p","a","n","d","a","s">>

polars == <<"p","o","l","a","r","s">>

FrameworkType == {pandas, polars}

VALID_FRAMEWORKS == <<pandas, polars>>

DEFAULT_DATAFRAME_FRAMEWORK == polars

\* The name of the environment variable read on line 32.
EnvKey == "DATAFRAME_FRAMEWORK"

\* x in VALID_FRAMEWORKS (list membership).
InList(x, list) == \E i \in DOMAIN list : list[i] = x

\* The four module-level table names in the order they are loaded, lines 75-78.
LoadOrder == <<"babynames", "applicants", "births", "lifetables">>

Tables == {LoadOrder[i] : i \in DOMAIN LoadOrder}

----------------------------------------------------------------------------
(* The environment the import runs in *)

spark == <<"s","p","a","r","k">>

\* Lower-case words the configured values are built from: the two recognized
\* identifiers, near misses of them, another library's name, the empty string.
Words == {pandas, polars, spark, <<"p","a","n","d","a">>,
          <<"p","o","l","a","r","s"," ">>, <<>>}

\* w with the positions in S upper-cased.
UpperAt(w, S) == [i \in 1..Len(w) |-> IF i \in S THEN UpperChar(w[i]) ELSE w[i]]

\* The letter-case variants of w with at most MaxUpper upper-cased positions,
\* and the fully upper-cased one.
CaseVariants(w) ==
    {UpperAt(w, S) : S \in {T \in SUBSET (1..Len(w)) : Cardinality(T) <= MaxUpper}}
        \cup {UpperAt(w, 1..Len(w))}

ConfigValues == UNION {CaseVariants(w) : w \in Words}

\* os.environ restricted to the one key the module reads: either the key is
\* absent (the empty mapping) or it maps to a configured value.
Environs == {<<>>} \cup [{EnvKey} -> ConfigValues]

\* os.environ.get(key, default)
EnvGet(env, key, default) == IF key \in DOMAIN env THEN env[key] ELSE default

VARIABLES
    environ,                    \* os.environ (the key the module reads)
    installed,                  \* the frameworks util.find_spec can find
    FRAMEWORK_AVAILABLE,        \* line 17; the empty mapping before it is assigned
    ACTIVE_DATAFRAME_FRAMEWORK, \* line 49; Unbound before it is assigned
    bindings,                   \* the module globals babynames, applicants, births, lifetables
    documented,                 \* the tables whose __doc__ was attached, lines 88-145
    warningsLog,                \* the warnings emitted so far, in order
    loadLog,                    \* the load attempts so far: <<table, framework imported>>
    loadIdx,                    \* the next statement of the try body, 1..4; 5 when it completed
    propagated,                 \* the exception that left module initialization, or "none"
    pc                          \* the phase of module initialization

vars == <<environ, installed, FRAMEWORK_AVAILABLE, ACTIVE_DATAFRAME_FRAMEWORK,
          bindings, documented, warningsLog, loadLog, loadIdx, propagated, pc>>

----------------------------------------------------------------------------
(* warnings.warn(message, category): the record of one emitted warning *)

Warning(category, kind, framework, alternative) ==
    [category |-> category, kind |-> kind,
     framework |-> framework, alternative |-> alternative]

\* line 35: "Invalid DATAFRAME_FRAMEWORK '{framework}'. Using default: ..."
InvalidWarning(framework) ==
    Warning("RuntimeWarning", "invalid_framework", framework,
            DEFAULT_DATAFRAME_FRAMEWORK)

\* line 43: "{framework.capitalize()} is not installed. Switching to {alternative}."
FallbackWarning(framework, alternative) ==
    Warning("RuntimeWarning", "not_installed", Capitalize(framework), alternative)

\* line 80: "Unable to find a suitable DataFrame library." (no category given)
NoLibraryWarning == Warning("UserWarning", "no_dataframe_library", None, None)

\* line 83: "Failed to load dataframes!"
LoadFailedWarning == Warning("RuntimeWarning", "load_failed", None, None)

----------------------------------------------------------------------------
(* _dataframe_framework, lines 22-46 *)

\* line 32: os.environ.get('DATAFRAME_FRAMEWORK', DEFAULT_DATAFRAME_FRAMEWORK).lower()
ReadFramework(env) == Lower(EnvGet(env, EnvKey, DEFAULT_DATAFRAME_FRAMEWORK))

\* A plausible slip: the first list entry is substituted instead of the default.
ValidateFramework_firstListed(framework) ==
    IF ~InList(framework, VALID_FRAMEWORKS)
    THEN [framework |-> VALID_FRAMEWORKS[1], warnings |-> <<InvalidWarning(framework)>>]
    ELSE [framework |-> framework, warnings |-> <<>>]

\* lines 34-36: an unrecognized value is warned about and replaced by the default.
ValidateFramework(framework) ==
    IF ~InList(framework, VALID_FRAMEWORKS)
    THEN [framework |-> DEFAULT_DATAFRAME_FRAMEWORK,
          warnings |-> <<InvalidWarning(framework)>>]
    ELSE [framework |-> framework, warnings |-> <<>>]

\* A plausible slip: the generator's availability filter is dropped.
NextAvailable_unfiltered(avail) == VALID_FRAMEWORKS[1]

\* line 41: next((f for f in VALID_FRAMEWORKS if FRAMEWORK_AVAILABLE[f]), None)
NextAvailable(avail) ==
    IF \E i \in DOMAIN VALID_FRAMEWORKS : avail[VALID_FRAMEWORKS[i]]
    THEN VALID_FRAMEWORKS[CHOOSE i \in DOMAIN VALID_FRAMEWORKS :
             /\ avail[VALID_FRAMEWORKS[i]]
             /\ \A j \in 1..(i-1) : ~avail[VALID_FRAMEWORKS[j]]]
    ELSE None

\* A plausible slip: the early return of lines 38-39 is missing, so the scan
\* of VALID_FRAMEWORKS decides even when the preference is available.
SelectFramework_scanOnly(framework, avail, warned) ==
    LET alternative == NextAvailable(avail)
    IN  IF alternative # None
        THEN [outcome |-> "return", value |-> alternative,
              warnings |-> IF alternative = framework THEN warned
                           ELSE Append(warned, FallbackWarning(framework, alternative))]
        ELSE [outcome |-> "raise", value |-> None, warnings |-> warned]

\* A plausible slip: the fallback of lines 42-44 returns without warning.
SelectFramework_silentFallback(framework, avail, warned) ==
    IF avail[framework]
    THEN [outcome |-> "return", value |-> framework, warnings |-> warned]
    ELSE LET alternative == NextAvailable(avail)
         IN  IF alternative # None
             THEN [outcome |-> "return", value |-> alternative, warnings |-> warned]
             ELSE [outcome |-> "raise", value |-> None, warnings |-> warned]

\* A plausible slip: with nothing installed the default is returned, not raised.
SelectFramework_defaultOnNone(framework, avail, warned) ==
    IF avail[framework]
    THEN [outcome |-> "return", value |-> framework, warnings |-> warned]
    ELSE LET alternative == NextAvailable(avail)
         IN  IF alternative # None
             THEN [outcome |-> "return", value |-> alternative,
                   warnings |-> Append(warned, FallbackWarning(framework, alternative))]
             ELSE [outcome |-> "return", value |-> DEFAULT_DATAFRAME_FRAMEWORK,
                   warnings |-> warned]

\* lines 38-46: the preference if available, else the first available entry of
\* VALID_FRAMEWORKS with a warning, else ImportError.
SelectFramework(framework, avail, warned) ==
    IF avail[framework]
    THEN [outcome |-> "return", value |-> framework, warnings |-> warned]
    ELSE LET alternative == NextAvailable(avail)
         IN  IF alternative # None
             THEN [outcome |-> "return", value |-> alternative,
                   warnings |-> Append(warned, FallbackWarning(framework, alternative))]
             ELSE [outcome |-> "raise", value |-> None, warnings |-> warned]

\* The whole function: its outcome ("return" with the framework, or "raise"
\* for ImportError) and the warnings it emits, in order.
_dataframe_framework(env, avail) ==
    LET v == ValidateFramework(ReadFramework(env))
    IN  SelectFramework(v.framework, avail, v.warnings)

----------------------------------------------------------------------------
(* Module initialization *)

Init ==
    /\ environ \in Environs
    /\ installed \in SUBSET FrameworkType
    /\ FRAMEWORK_AVAILABLE = <<>>
    /\ ACTIVE_DATAFRAME_FRAMEWORK = Unbound
    /\ bindings = [t \in Tables |-> "unbound"]
    /\ documented = {}
    /\ warningsLog = <<>>
    /\ loadLog = <<>>
    /\ loadIdx = 1
    /\ propagated = "none"
    /\ pc = "UNINITIALIZED"

\* lines 17-20: probe each framework with util.find_spec.
ProbeAvailability ==
    /\ pc = "UNINITIALIZED"
    /\ FRAMEWORK_AVAILABLE' = [f \in FrameworkType |-> f \in installed]
    /\ pc' = "resolving"
    /\ UNCHANGED <<environ, installed, ACTIVE_DATAFRAME_FRAMEWORK, bindings,
                   documented, warningsLog, loadLog, loadIdx, propagated>>

\* line 49, _dataframe_framework returns: the result becomes the active framework.
ResolveReturn ==
    /\ pc = "resolving"
    /\ LET r == _dataframe_framework(environ, FRAMEWORK_AVAILABLE)
       IN  /\ r.outcome = "return"
           /\ ACTIVE_DATAFRAME_FRAMEWORK' = r.value
           /\ warningsLog' = warningsLog \o r.warnings
    /\ pc' = "loading"
    /\ UNCHANGED <<environ, installed, FRAMEWORK_AVAILABLE, bindings, documented,
                   loadLog, loadIdx, propagated>>

\* line 49, _dataframe_framework raises ImportError (line 46): the statement is
\* outside every try block, so the exception leaves module initialization.
ResolveRaise ==
    /\ pc = "resolving"
    /\ LET r == _dataframe_framework(environ, FRAMEWORK_AVAILABLE)
       IN  /\ r.outcome = "raise"
           /\ warningsLog' = warningsLog \o r.warnings
    /\ propagated' = "ImportError"
    /\ pc' = "CRASHED"
    /\ UNCHANGED <<environ, installed, FRAMEWORK_AVAILABLE,
                   ACTIVE_DATAFRAME_FRAMEWORK, bindings, documented, loadLog, loadIdx>>

\* A plausible slip: the default framework is imported, not the active one.
_dataframe_module_default == DEFAULT_DATAFRAME_FRAMEWORK

\* lines 51-58: import_module(ACTIVE_DATAFRAME_FRAMEWORK)
_dataframe_module == ACTIVE_DATAFRAME_FRAMEWORK

\* The try body is at one of its four load statements, lines 74-78.
InTryBody == pc = "loading" /\ loadIdx \in DOMAIN LoadOrder

\* lines 60-71 called from the try body: the load attempt now made.
LoadAttempt == <<LoadOrder[loadIdx], _dataframe_module>>

\* One of lines 75-78 succeeds: the table is bound and the next statement runs.
LoadSucceeds ==
    /\ InTryBody
    /\ loadLog' = Append(loadLog, LoadAttempt)
    /\ bindings' = [bindings EXCEPT ![LoadOrder[loadIdx]] = "DataFrame"]
    /\ loadIdx' = loadIdx + 1
    /\ UNCHANGED <<environ, installed, FRAMEWORK_AVAILABLE,
                   ACTIVE_DATAFRAME_FRAMEWORK, documented, warningsLog,
                   propagated, pc>>

\* A plausible slip: only the names not bound yet are set to None.
ResetBindings_unboundOnly(b) ==
    [t \in Tables |-> IF b[t] = "unbound" THEN "None" ELSE b[t]]

\* lines 81 and 84: babynames = applicants = lifetables = births = None
ResetBindings(b) == [t \in Tables |-> "None"]

\* One of lines 75-78 raises ImportError (the framework or its parquet engine
\* cannot be imported): lines 79-81.
LoadRaisesImportError ==
    /\ InTryBody
    /\ loadLog' = Append(loadLog, LoadAttempt)
    /\ warningsLog' = Append(warningsLog, NoLibraryWarning)
    /\ bindings' = ResetBindings(bindings)
    /\ pc' = "FAILED"
    /\ UNCHANGED <<environ, installed, FRAMEWORK_AVAILABLE,
                   ACTIVE_DATAFRAME_FRAMEWORK, documented, loadIdx, propagated>>

\* A plausible slip: the handler starts module initialization over.
LoadRaisesOther_reinit ==
    /\ InTryBody
    /\ loadLog' = Append(loadLog, LoadAttempt)
    /\ warningsLog' = Append(warningsLog, LoadFailedWarning)
    /\ bindings' = ResetBindings(bindings)
    /\ loadIdx' = 1
    /\ pc' = "UNINITIALIZED"
    /\ UNCHANGED <<environ, installed, FRAMEWORK_AVAILABLE,
                   ACTIVE_DATAFRAME_FRAMEWORK, documented, propagated>>

\* One of lines 75-78 raises anything else (file missing, unreadable, not
\* parquet): the bare except of lines 82-84.
LoadRaisesOther ==
    /\ InTryBody
    /\ loadLog' = Append(loadLog, LoadAttempt)
    /\ warningsLog' = Append(warningsLog, LoadFailedWarning)
    /\ bindings' = ResetBindings(bindings)
    /\ pc' = "FAILED"
    /\ UNCHANGED <<environ, installed, FRAMEWORK_AVAILABLE,
                   ACTIVE_DATAFRAME_FRAMEWORK, documented, loadIdx, propagated>>

\* lines 85-145: the try body completed, the else block attaches __doc__ to
\* each of the four tables.
AttachDocs ==
    /\ pc = "loading"
    /\ loadIdx = Len(LoadOrder) + 1
    /\ documented' = Tables
    /\ pc' = "READY"
    /\ UNCHANGED <<environ, installed, FRAMEWORK_AVAILABLE,
                   ACTIVE_DATAFRAME_FRAMEWORK, bindings, warningsLog, loadLog,
                   loadIdx, propagated>>

Next ==
    \/ ProbeAvailability
    \/ ResolveReturn
    \/ ResolveRaise
    \/ LoadSucceeds
    \/ LoadRaisesImportError
    \/ LoadRaisesOther
    \/ AttachDocs

Spec == Init /\ [][Next]_vars

----------------------------------------------------------------------------
(* Vocabulary of the properties *)

\* _dataframe_framework has been called and has returned or raised.
Resolved == pc \in {"loading", "READY", "FAILED", "CRASHED"}

\* Module initialization is over.
Ended == pc \in {"READY", "FAILED", "CRASHED"}

\* The environment variable is set.
Configured == EnvKey \in DOMAIN environ

\* s is w in some letter case (w lower-case): same length, each character
\* of s the character of w or its upper-case counterpart.
IsCaseVariant(s, w) ==
    /\ Len(s) = Len(w)
    /\ \A i \in 1..Len(w) :
          \/ s[i] = w[i]
          \/ \E k \in DOMAIN LowerChars : LowerChars[k] = w[i] /\ UpperChars[k] = s[i]

\* The configured value names a recognized framework, in any letter case.
Recognized == Configured /\ \E B \in FrameworkType : IsCaseVariant(environ[EnvKey], B)

\* The framework resolution starts from: the recognized one configured, else
\* the default (value absent or unrecognized).
Preferred ==
    IF Recognized
    THEN CHOOSE B \in FrameworkType : IsCaseVariant(environ[EnvKey], B)
    ELSE DEFAULT_DATAFRAME_FRAMEWORK

SomeAvailable == \E f \in FrameworkType : FRAMEWORK_AVAILABLE[f]

HasWarning(kind) == \E i \in DOMAIN warningsLog : warningsLog[i].kind = kind

CountWarnings(kind) == Cardinality({i \in DOMAIN warningsLog : warningsLog[i].kind = kind})

IsResolutionWarning(w) == w.kind \in {"invalid_framework", "not_installed"}

\* The warnings _dataframe_framework emitted, in order.
ResolutionWarnings == SelectSeq(warningsLog, IsResolutionWarning)

\* Resolution returned framework f to line 49.
ReturnedFramework(f) ==
    /\ pc \in {"loading", "READY", "FAILED"}
    /\ ACTIVE_DATAFRAME_FRAMEWORK = f
    /\ propagated = "none"

\* Resolution raised ImportError, which left module initialization.
RaisedNoBackend ==
    /\ pc = "CRASHED"
    /\ ACTIVE_DATAFRAME_FRAMEWORK = Unbound
    /\ propagated = "ImportError"

\* The run's resolution ended as r says (r a result of _dataframe_framework).
SameOutcome(r) ==
    IF r.outcome = "return" THEN ReturnedFramework(r.value) ELSE RaisedNoBackend

AllPopulated == \A t \in Tables : bindings[t] = "DataFrame"

AllAbsent == \A t \in Tables : bindings[t] = "None"

----------------------------------------------------------------------------
(* Properties *)

\* C1: startup never lets an error leave module initialization: whatever the
\* configured value, the availability map and the load failures, a failed
\* startup ends in FAILED with a warning emitted and all four table bindings
\* None.
C1_StartupNeverCrashes ==
    /\ propagated = "none"
    /\ pc # "CRASHED"
    /\ (Ended /\ ~AllPopulated) =>
          /\ pc = "FAILED"
          /\ AllAbsent
          /\ HasWarning("no_dataframe_library") \/ HasWarning("load_failed")

\* C2: once module initialization is over the four table bindings are never a
\* mix: READY has all four populated, FAILED has all four None (a failure of
\* the k-th load resets the k-1 tables bound before it), and an aborted
\* initialization has bound none of them.
C2_AllOrNothing ==
    /\ Ended => \A s, t \in Tables : bindings[s] = bindings[t]
    /\ pc = "READY" => AllPopulated /\ Len(loadLog) = Len(LoadOrder)
    /\ pc = "FAILED" => AllAbsent /\ Len(loadLog) \in DOMAIN LoadOrder

\* C2 witness: the third load failed after two tables had been bound.
C2_Witness ==
    /\ pc = "FAILED"
    /\ Len(loadLog) = 3
    /\ loadLog[3][1] = "births"
    /\ AllAbsent

\* C3: a recognized framework B that is available, configured as the
\* preference, is the one resolution returns, whatever the availability of the
\* other framework, and no fallback warning is emitted.
C3_AvailablePreferenceWins ==
    \A B \in FrameworkType :
        (Resolved /\ Configured /\ environ[EnvKey] = B /\ FRAMEWORK_AVAILABLE[B])
            => /\ ReturnedFramework(B)
               /\ ~HasWarning("not_installed")

\* C3 witness: polars configured with both frameworks installed, where a scan
\* in declaration order alone would have picked pandas.
C3_Witness ==
    /\ pc = "READY"
    /\ Configured
    /\ environ[EnvKey] = polars
    /\ installed = FrameworkType
    /\ ACTIVE_DATAFRAME_FRAMEWORK = polars

\* C4: when the preferred framework (the configured one, or the default
\* substituted for it) is unavailable and some recognized framework is
\* available, resolution returns the first available entry of
\* VALID_FRAMEWORKS in its declaration order (pandas, then polars).
C4_FallbackInDeclarationOrder ==
    (Resolved /\ ~FRAMEWORK_AVAILABLE[Preferred] /\ SomeAvailable)
        => \E i \in DOMAIN VALID_FRAMEWORKS :
              /\ FRAMEWORK_AVAILABLE[VALID_FRAMEWORKS[i]]
              /\ \A j \in DOMAIN VALID_FRAMEWORKS :
                    j < i => ~FRAMEWORK_AVAILABLE[VALID_FRAMEWORKS[j]]
              /\ ReturnedFramework(VALID_FRAMEWORKS[i])

\* C4 witness: pandas configured but only polars installed.
C4_Witness ==
    /\ Resolved
    /\ Configured
    /\ environ[EnvKey] = pandas
    /\ installed = {polars}
    /\ ACTIVE_DATAFRAME_FRAMEWORK = polars
    /\ HasWarning("not_installed")

\* The environment in which the default identifier itself is configured.
DefaultEnviron == [k \in {EnvKey} |-> DEFAULT_DATAFRAME_FRAMEWORK]

\* C5: a configured value that is no recognized identifier is replaced by the
\* default 'polars' with one warning, and resolution then ends exactly as it
\* does with 'polars' configured under the same availability map: the same
\* framework returned or the same failure, after the same further warnings.
C5_InvalidValueActsAsDefault ==
    (Resolved /\ Configured /\ ~Recognized)
        => LET d == _dataframe_framework(DefaultEnviron, FRAMEWORK_AVAILABLE)
           IN  /\ SameOutcome(d)
               /\ Len(ResolutionWarnings) >= 1
               /\ ResolutionWarnings[1].kind = "invalid_framework"
               /\ ResolutionWarnings[1].alternative = polars
               /\ Tail(ResolutionWarnings) = d.warnings

\* C5 witness: 'spark' configured with both frameworks installed.
C5_Witness ==
    /\ pc = "loading"
    /\ Configured
    /\ environ[EnvKey] = spark
    /\ installed = FrameworkType
    /\ ACTIVE_DATAFRAME_FRAMEWORK = polars
    /\ HasWarning("invalid_framework")

\* C6: with no recognized framework available resolution raises ImportError
\* whatever is configured, no table load is attempted and no table binding is
\* populated.
C6_NoBackendNoTables ==
    (Resolved /\ ~SomeAvailable)
        => /\ RaisedNoBackend
           /\ loadLog = <<>>
           /\ \A t \in Tables : bindings[t] # "DataFrame"

\* C6 witness: resolution failed with a recognized value configured.
C6_Witness ==
    /\ pc = "CRASHED"
    /\ Configured
    /\ environ[EnvKey] = pandas
    /\ installed = {}
    /\ propagated = "ImportError"

\* The order of the phases of module initialization.
PhaseRank(p) ==
    CASE p = "UNINITIALIZED" -> 0
      [] p = "resolving" -> 1
      [] p = "loading" -> 2
      [] OTHER -> 3

\* C7: the phases run UNINITIALIZED, resolving, loading, then READY or FAILED:
\* no step goes back to an earlier phase or to UNINITIALIZED, loading is
\* entered only from resolving, READY and FAILED only from loading, and once
\* READY or FAILED is reached nothing changes any more (no further load or
\* resolution step, the bindings and the resolved framework stay).
C7_TerminalPhases ==
    [][ /\ PhaseRank(pc') >= PhaseRank(pc)
        /\ pc' # pc => pc' # "UNINITIALIZED"
        /\ (pc' = "loading" /\ pc # "loading") => pc = "resolving"
        /\ (pc' \in {"READY", "FAILED"} /\ pc' # pc) => pc = "loading"
        /\ pc \in {"READY", "FAILED"} => UNCHANGED vars
        /\ Resolved => ACTIVE_DATAFRAME_FRAMEWORK' = ACTIVE_DATAFRAME_FRAMEWORK
      ]_vars

\* C7 witness: the very first load failed and initialization stopped there.
C7_Witness ==
    /\ pc = "FAILED"
    /\ Len(loadLog) = 1
    /\ loadIdx = 1

\* C8: the configured value is read case-insensitively: a letter-case variant
\* of a recognized identifier B resolves as B itself does (same outcome, same
\* warnings, none of them the invalid-value warning), and an absent value
\* resolves as the configured default 'polars' does.
C8_CaseInsensitiveAndDefault ==
    /\ \A B \in FrameworkType :
          (Resolved /\ Configured /\ IsCaseVariant(environ[EnvKey], B))
              => LET r == _dataframe_framework([k \in {EnvKey} |-> B], FRAMEWORK_AVAILABLE)
                 IN  /\ SameOutcome(r)
                     /\ ResolutionWarnings = r.warnings
                     /\ ~HasWarning("invalid_framework")
    /\ (Resolved /\ ~Configured)
          => LET d == _dataframe_framework(DefaultEnviron, FRAMEWORK_AVAILABLE)
             IN  SameOutcome(d) /\ ResolutionWarnings = d.warnings

\* C8 witness: 'PANDAS' configured and pandas installed.
C8_Witness ==
    /\ Resolved
    /\ Configured
    /\ environ[EnvKey] = <<"P","A","N","D","A","S">>
    /\ pandas \in installed
    /\ ACTIVE_DATAFRAME_FRAMEWORK = pandas
    /\ warningsLog = <<>>

\* C9: the warnings of resolution only report: the invalid-value warning is
\* emitted (once) exactly when a value is configured that is no recognized
\* identifier in any letter case, the fallback warning (once) exactly when the
\* preferred framework is unavailable and another one is available, none on
\* the path of a recognized, available preference, and the outcome is fixed by
\* the configured value and the availability map alone.
C9_WarningsOnlyReport ==
    Resolved =>
        /\ CountWarnings("invalid_framework") = (IF Configured /\ ~Recognized THEN 1 ELSE 0)
        /\ CountWarnings("not_installed") =
              (IF ~FRAMEWORK_AVAILABLE[Preferred] /\ SomeAvailable THEN 1 ELSE 0)
        /\ (Recognized /\ FRAMEWORK_AVAILABLE[Preferred]) => ResolutionWarnings = <<>>
        /\ IF FRAMEWORK_AVAILABLE[Preferred] THEN ReturnedFramework(Preferred)
           ELSE IF SomeAvailable
                THEN \E f \in FrameworkType \ {Preferred} :
                        FRAMEWORK_AVAILABLE[f] /\ ReturnedFramework(f)
                ELSE RaisedNoBackend

\* C9 witness: an unrecognized value and an unavailable default, so that both
\* warnings were emitted before pandas was returned.
C9_Witness ==
    /\ Resolved
    /\ Configured
    /\ environ[EnvKey] = <<"s","P","a","r","k">>
    /\ installed = {pandas}
    /\ Len(ResolutionWarnings) = 2
    /\ ACTIVE_DATAFRAME_FRAMEWORK = pandas

\* C10: every load attempt is made after resolution returned, with the one
\* framework it returned, which is recognized and available; the attempts
\* follow the load order, all with that framework, and a failed load is the
\* last attempt: no other available framework is tried.
C10_LoadsUseResolvedBackend ==
    /\ loadLog # <<>> => pc \in {"loading", "READY", "FAILED"}
    /\ pc \in {"loading", "READY", "FAILED"} =>
          /\ ACTIVE_DATAFRAME_FRAMEWORK \in FrameworkType
          /\ FRAMEWORK_AVAILABLE[ACTIVE_DATAFRAME_FRAMEWORK]
    /\ Len(loadLog) <= Len(LoadOrder)
    /\ \A i \in DOMAIN loadLog :
          /\ loadLog[i][1] = LoadOrder[i]
          /\ loadLog[i][2] = ACTIVE_DATAFRAME_FRAMEWORK
    /\ pc = "FAILED" => Len(loadLog) = loadIdx

\* C10 witness: a load failed under pandas while polars was installed too, and
\* polars was not tried.
C10_Witness ==
    /\ pc = "FAILED"
    /\ Len(loadLog) = 2
    /\ installed = FrameworkType
    /\ ACTIVE_DATAFRAME_FRAMEWORK = pandas
    /\ \A i \in DOMAIN loadLog : loadLog[i][2] = pandas

====
